---- MODULE Spec2Model ----
(***************************************************************************)
(* igc4vid: one run of src/index.ts over an IGC track.                     *)
(*                                                                         *)
(* run() reads the track, processData() first collects the ground          *)
(* elevations in batches of 100 fixes from the elevation service, then     *)
(* re-scores the growing prefix of the track in chunks of 60 fixes with    *)
(* the igc-xc-score solver, and writeProcessedFile() writes the CSV.       *)
(*                                                                         *)
(* The elevation service and the solver are the environment: every         *)
(* response and every candidate is a nondeterministic choice.              *)
(*                                                                         *)
(* Units: latitude/longitude in 1e-6 degree, elevations in 0.1 m,          *)
(* distances and penalties in 0.1 km, timestamps in ms, so that the        *)
(* toFixed() conversions of the program round something.                   *)
(***************************************************************************)
EXTENDS Integers, Sequences, FiniteSets

\* ------------------------------------------------------------------ bounds
\* Longest track read from the IGC file.
MaxFixes == 150
\* Most non-optimal candidates a solver yields before its optimal one.
MaxIntermediate == 1

\* -------------------------------------------------------- program constants
\* getGroundElevations: const CHUNK_SIZE = 100
ELEVATION_CHUNK_SIZE == 100
\* processData: const CHUNK_SIZE = 60
CHUNK_SIZE == 60
\* processData: the divisor 3_600_000 (ms per hour)
MS_PER_HOUR == 3600000

VARIABLES
    pc,             \* where run() stands
    error,          \* the error the run died of, "" while none
    fixes,          \* the parsed track (const fixes = igc.fixes)
    igcFixes,       \* igc.fixes, the accumulator handed to the solver
    elevI,          \* getGroundElevations: loop index i
    result,         \* getGroundElevations: result
    requests,       \* the requests sent to the elevation service, in order
    responses,      \* the responses it gave, in order
    elevations,     \* processData: elevations
    i,              \* processData: loop index i
    firstTimestamp, \* processData: firstTimestamp
    solved,         \* processData: solved
    xc,             \* processData: xc
    avgSpeed,       \* processData: avgSpeed
    pulls,          \* solver.next() calls made on the current solver
    solverCalls,    \* one entry per xcs.solver() invocation
    processedData,  \* processData: processedData
    fileOpened,     \* the target file has been opened for writing
    fileRows        \* the data rows written to it (after the header)

vars == <<pc, error, fixes, igcFixes, elevI, result, requests, responses,
          elevations, i, firstTimestamp, solved, xc, avgSpeed, pulls,
          solverCalls, processedData, fileOpened, fileRows>>

\* ----------------------------------------------------------------- helpers
Min(a, b) == IF a < b THEN a ELSE b

RECURSIVE Gcd(_, _)
Gcd(a, b) == IF b = 0 THEN a ELSE Gcd(b, a % b)

\* Array.prototype.slice(from, to) with 0-based from and exclusive to.
Slice(s, from, to) == SubSeq(s, from + 1, Min(to, Len(s)))

\* A JS number that is undefined / a defined value v.
Undefined == <<>>
Num(v) == <<v>>

\* JS division of two non-negative numbers, as a reduced fraction.
Div(a, b) ==
    IF b = 0
    THEN [kind |-> IF a = 0 THEN "NaN" ELSE "Infinity", n |-> 0, d |-> 1]
    ELSE [kind |-> "num", n |-> a \div Gcd(a, b), d |-> b \div Gcd(a, b)]

\* Number.prototype.toFixed(0) of a value given in tenths: the nearest
\* integer, a tie going away from zero.
ToFixed0(tenths) ==
    IF tenths >= 0 THEN (tenths + 5) \div 10 ELSE 0 - ((5 - tenths) \div 10)

\* toFixed(5) of a coordinate given in 1e-6 degree, in 1e-5 degree.
ToFixed5(micro) ==
    IF micro >= 0 THEN (micro + 5) \div 10 ELSE 0 - ((5 - micro) \div 10)

\* avgSpeed.toFixed(1): the speed in tenths of km/h.
SpeedToFixed1(v) ==
    IF v.kind = "num"
    THEN [kind |-> "num", tenths |-> (20 * v.n + v.d) \div (2 * v.d)]
    ELSE [kind |-> v.kind, tenths |-> 0]

\* ------------------------------------------------------------ the IGC track
\* Fix number j (0-based) of the parsed file: one fix per second, moving
\* north-east and climbing.
MakeFix(j) ==
    [time |-> j,
     timestamp |-> 1000 * j,
     latitude |-> 48603333 + 7 * j,
     longitude |-> 11500004 + 13 * j,
     gpsAltitude |-> 1000 + j]

MakeTrack(n) == [j \in 1..n |-> MakeFix(j - 1)]

\* The track lengths tried: the shortest ones, the longest one, and those
\* next to a multiple of 20, which puts a length just below, at and just
\* above every boundary of a scoring chunk and of an elevation batch.
TrackLengths ==
    {n \in 0..MaxFixes :
        n < 4 \/ n = MaxFixes \/ n % 20 \in {0, 1, 19}}

\* --------------------------------------------------- the elevation service
\* `${t.latitude.toFixed(5)}, ${t.longitude.toFixed(5)}` of every fix.
Locations(chunk) ==
    [k \in 1..Len(chunk) |->
        <<ToFixed5(chunk[k].latitude), ToFixed5(chunk[k].longitude)>>]

\* The service's elevation (0.1 m) at a location.
Terrain(loc) == 3000 + ((loc[1] * 3 + loc[2]) % 4001)

ExactResults(locs) == [k \in 1..Len(locs) |-> Terrain(locs[k])]

StatusOK == <<"O", "K">>
StatusInvalid == <<"I", "N", "V", "A", "L", "I", "D">>

\* What the service can answer to a request for locs: an HTTP error, a
\* body whose status is not OK, or an OK body with one result per
\* location, with the last one missing, or with one too many.
Responses(locs) ==
    {[ok |-> FALSE, status |-> <<>>, results |-> <<>>],
     [ok |-> TRUE, status |-> StatusInvalid, results |-> <<>>],
     [ok |-> TRUE, status |-> StatusOK, results |-> ExactResults(locs)],
     [ok |-> TRUE, status |-> StatusOK,
      results |-> SubSeq(ExactResults(locs), 1, Len(locs) - 1)],
     [ok |-> TRUE, status |-> StatusOK,
      results |-> Append(ExactResults(locs), 3000)]}

\* data.status.startsWith('OK')
StartsWithOK(status) ==
    Len(status) >= 2 /\ status[1] = "O" /\ status[2] = "K"

\* ----------------------------------------------------------------- solver
NoPenalty == [kind |-> "undefined", val |-> 0]
NaNPenalty == [kind |-> "NaN", val |-> 0]
Penalty(v) == [kind |-> "num", val |-> v]

\* The score payloads a candidate can carry.
ScoreInfos ==
    {[code |-> "fai", distance |-> 105, penalty |-> NoPenalty],
     [code |-> "tri", distance |-> 105, penalty |-> Penalty(30)],
     [code |-> "od", distance |-> 74, penalty |-> NaNPenalty]}

\* The candidates solver.next().value can be; optimal may be absent.
Candidates ==
    {[optimal |-> o, code |-> s.code, distance |-> s.distance,
      penalty |-> s.penalty] : o \in {"true", "false", "undefined"},
                               s \in ScoreInfos}

\* No candidate taken yet.
NoCandidate ==
    [optimal |-> "none", code |-> "", distance |-> 0, penalty |-> NoPenalty]

\* ------------------------------------------------- getGroundElevations
\* Mutant of ElevLoopGuard: the loop bound is inclusive.
ElevLoopGuardInclusive(idx, dataLength) == idx <= dataLength

\* for (let i = 0; i < dataLength; i += CHUNK_SIZE)
ElevLoopGuard(idx, dataLength) == idx < dataLength

\* igc.fixes.slice(i, i + CHUNK_SIZE)
ElevChunk(fs, idx) == Slice(fs, idx, idx + ELEVATION_CHUNK_SIZE)

\* Mutant of ResponseOk: the HTTP status is never looked at.
ResponseOkUnchecked(response) == TRUE

\* if (response.ok) ... else throw
ResponseOk(response) == response.ok

\* result.concat(data.results.map(r => r.elevation)) when the status
\* starts with OK, result unchanged otherwise.
Collect(res, data) ==
    IF StartsWithOK(data.status) THEN res \o data.results ELSE res

\* ------------------------------------------------------------ processData
\* getRouteType: 'fai' -> 'FAI', 'tri' -> 'flat', anything else undefined
\* (dropped by filter(Boolean), "" here).
GetRouteType(scoringCode) ==
    CASE scoringCode = "fai" -> "FAI"
      [] scoringCode = "tri" -> "flat"
      [] OTHER -> ""

\* !scoreInfo.penalty || Number.isNaN(scoreInfo.penalty) ? 0 : penalty
PenaltyOrZero(penalty) ==
    IF penalty.kind = "undefined" \/ penalty.kind = "NaN" \/ penalty.val = 0
    THEN 0
    ELSE penalty.val

\* The xc string "<route> <km> km": its route word ("" when filtered out)
\* and its km figure, (distance - penalty).toFixed(0).
XcLabel(next) ==
    [route |-> GetRouteType(next.code),
     km |-> ToFixed0(next.distance - PenaltyOrZero(next.penalty))]

\* let xc: string = ''
EmptyXc == [route |-> "", km |-> 0 - 1]

\* let avgSpeed: number (not yet assigned)
UndefinedSpeed == [kind |-> "undefined", n |-> 0, d |-> 1]

\* scoreInfo.distance / ((chunk[chunk.length - 1].timestamp
\*                        - firstTimestamp) / 3_600_000), in km/h.
AvgSpeedOf(next, chunk, first) ==
    Div(next.distance * (MS_PER_HOUR \div 10),
        chunk[Len(chunk)].timestamp - first)

\* Mutant of ScoreChunk: the slice ends one fix early.
ScoreChunkShort(fs, idx) == Slice(fs, idx, idx + CHUNK_SIZE - 1)

\* fixes.slice(i, i + CHUNK_SIZE)
ScoreChunk(fs, idx) == Slice(fs, idx, idx + CHUNK_SIZE)

\* Mutant of Accumulate: igc.fixes is replaced by the chunk.
AccumulateChunkOnly(acc, chunk) == chunk

\* igc.fixes = igc.fixes.concat(chunk)
Accumulate(acc, chunk) == acc \o chunk

\* Mutant of Solved: a candidate without the flag counts as optimal.
SolvedUnlessFalse(next) == next.optimal # "false"

\* solved = next.optimal || false
Solved(next) == next.optimal = "true"

\* elevations[k] for a 0-based k
ElevationAt(elev, k) == IF k + 1 <= Len(elev) THEN Num(elev[k + 1]) ELSE Undefined

\* Mutant of PushRows: the new score is also written into the rows of the
\* earlier chunks.
PushRowsRetroactive(pd, chunk, idx, elev, label, speed) ==
    [k \in 1..Len(pd) |->
        [time |-> pd[k].time, gpsAlt |-> pd[k].gpsAlt,
         groundElev |-> pd[k].groundElev, xc |-> label, avgSpeed |-> speed]]
    \o [j \in 1..Len(chunk) |->
            [time |-> chunk[j].time,
             gpsAlt |-> chunk[j].gpsAltitude,
             groundElev |-> IF idx + j <= Len(elev)
                            THEN Num(elev[idx + j]) ELSE Undefined,
             xc |-> label,
             avgSpeed |-> speed]]

\* chunk.forEach((fix, j) => processedData.push({...}))
PushRows(pd, chunk, idx, elev, label, speed) ==
    pd \o [j \in 1..Len(chunk) |->
            [time |-> chunk[j].time,
             gpsAlt |-> chunk[j].gpsAltitude,
             groundElev |-> ElevationAt(elev, idx + j - 1),
             xc |-> label,
             avgSpeed |-> speed]]

\* ----------------------------------------------------- writeProcessedFile
\* The template of one row throws a TypeError when groundElev or avgSpeed
\* is undefined (undefined.toFixed).
RowThrows(row) == row.groundElev = Undefined \/ row.avgSpeed.kind = "undefined"

\* Rows written before the first row that throws.
RECURSIVE Writable(_, _)
Writable(pd, k) ==
    IF k > Len(pd) \/ RowThrows(pd[k]) THEN k - 1 ELSE Writable(pd, k + 1)

\* `${flightDate}T${time}Z,${gpsAlt},${groundElev.toFixed(0)},
\*  ${(gpsAlt - groundElev).toFixed(0)},${xc},${avgSpeed.toFixed(1)}`
CsvRow(row) ==
    [time |-> row.time,
     altitude |-> row.gpsAlt,
     ground |-> ToFixed0(row.groundElev[1]),
     agl |-> ToFixed0(10 * row.gpsAlt - row.groundElev[1]),
     xc |-> row.xc,
     speed |-> SpeedToFixed1(row.avgSpeed)]

\* -------------------------------------------------------------------- Init
Init ==
    /\ \E n \in TrackLengths : fixes = MakeTrack(n)
    /\ igcFixes = fixes
    /\ pc = "elev"
    /\ error = ""
    /\ elevI = 0
    /\ result = <<>>
    /\ requests = <<>>
    /\ responses = <<>>
    /\ elevations = <<>>
    /\ i = 0
    /\ firstTimestamp = 0
    /\ solved = FALSE
    /\ xc = EmptyXc
    /\ avgSpeed = UndefinedSpeed
    /\ pulls = 0
    /\ solverCalls = <<>>
    /\ processedData = <<>>
    /\ fileOpened = FALSE
    /\ fileRows = <<>>

\* ----------------------------------------------------------------- actions
\* One iteration of the loop of getGroundElevations: slice, request,
\* response, concat or throw. The throw is not caught anywhere in run().
FetchBatch ==
    /\ pc = "elev"
    /\ ElevLoopGuard(elevI, Len(igcFixes))
    /\ LET locations == Locations(ElevChunk(igcFixes, elevI)) IN
       \E response \in Responses(locations) :
         /\ requests' = Append(requests, locations)
         /\ responses' = Append(responses, response)
         /\ IF ResponseOk(response)
            THEN /\ result' = Collect(result, response)
                 /\ elevI' = elevI + ELEVATION_CHUNK_SIZE
                 /\ UNCHANGED <<pc, error>>
            ELSE /\ pc' = "failed"
                 /\ error' = "HttpError"
                 /\ UNCHANGED <<result, elevI>>
    /\ UNCHANGED <<fixes, igcFixes, elevations, i, firstTimestamp, solved, xc,
                   avgSpeed, pulls, solverCalls, processedData, fileOpened,
                   fileRows>>

\* getGroundElevations returns; processData returns [] for an empty
\* track, else takes firstTimestamp and empties igc.fixes.
BeginScoring ==
    /\ pc = "elev"
    /\ ~ElevLoopGuard(elevI, Len(igcFixes))
    /\ elevations' = result
    /\ IF Len(fixes) = 0
       THEN /\ pc' = "write"
            /\ UNCHANGED <<firstTimestamp, igcFixes>>
       ELSE /\ pc' = "score"
            /\ firstTimestamp' = fixes[1].timestamp
            /\ igcFixes' = <<>>
    /\ i' = 0
    /\ UNCHANGED <<error, fixes, elevI, result, requests, responses, solved,
                   xc, avgSpeed, pulls, solverCalls, processedData,
                   fileOpened, fileRows>>

\* Head of one scoring iteration: the chunk joins igc.fixes and a solver
\* is created over it.
NextChunk ==
    /\ pc = "score"
    /\ i < Len(fixes)
    /\ igcFixes' = Accumulate(igcFixes, ScoreChunk(fixes, i))
    /\ solverCalls' = Append(solverCalls,
                             [prefix |-> Len(igcFixes'),
                              accepted |-> NoCandidate,
                              optimalSeen |-> FALSE,
                              pulledPastOptimal |-> FALSE])
    /\ pulls' = 0
    /\ solved' = FALSE
    /\ xc' = EmptyXc
    /\ avgSpeed' = UndefinedSpeed
    /\ pc' = "solve"
    /\ UNCHANGED <<error, fixes, elevI, result, requests, responses,
                   elevations, i, firstTimestamp, processedData, fileOpened,
                   fileRows>>

\* One pass of the do-while: pull a candidate; when it counts as solved,
\* take its score, leave the loop, push the chunk's rows and advance i.
\* The solver yields at most MaxIntermediate candidates before one flagged
\* optimal; it is dropped when the loop is left.
SolverNext ==
    /\ pc = "solve"
    /\ \E next \in Candidates :
         /\ next.optimal = "true" \/ pulls < MaxIntermediate
         /\ LET chunk == ScoreChunk(fixes, i)
                call == solverCalls[Len(solverCalls)]
            IN
            /\ solved' = Solved(next)
            /\ IF solved'
               THEN /\ xc' = XcLabel(next)
                    /\ avgSpeed' = AvgSpeedOf(next, chunk, firstTimestamp)
                    /\ processedData' = PushRows(processedData, chunk, i,
                                                 elevations, xc', avgSpeed')
                    /\ i' = i + CHUNK_SIZE
                    /\ pulls' = 0
                    /\ pc' = "score"
               ELSE /\ pulls' = pulls + 1
                    /\ UNCHANGED <<xc, avgSpeed, processedData, i, pc>>
            /\ solverCalls' =
                 [solverCalls EXCEPT ![Len(solverCalls)] =
                    [prefix |-> call.prefix,
                     accepted |-> IF solved' THEN next ELSE call.accepted,
                     optimalSeen |-> call.optimalSeen \/ next.optimal = "true",
                     pulledPastOptimal |->
                         call.pulledPastOptimal \/ call.optimalSeen]]
    /\ UNCHANGED <<error, fixes, igcFixes, elevI, result, requests,
                   responses, elevations, firstTimestamp, fileOpened,
                   fileRows>>

\* The scoring loop ends; processData returns processedData to run().
EndScoring ==
    /\ pc = "score"
    /\ ~(i < Len(fixes))
    /\ pc' = "write"
    /\ UNCHANGED <<error, fixes, igcFixes, elevI, result, requests,
                   responses, elevations, i, firstTimestamp, solved, xc,
                   avgSpeed, pulls, solverCalls, processedData, fileOpened,
                   fileRows>>

\* writeProcessedFile: open, header, one row per entry until a row's
\* template throws; the file is closed either way.
WriteProcessedFile ==
    /\ pc = "write"
    /\ fileOpened' = TRUE
    /\ LET n == Writable(processedData, 1) IN
         /\ fileRows' = [k \in 1..n |-> CsvRow(processedData[k])]
         /\ IF n = Len(processedData)
            THEN pc' = "done" /\ error' = error
            ELSE pc' = "failed" /\ error' = "TypeError"
    /\ UNCHANGED <<fixes, igcFixes, elevI, result, requests, responses,
                   elevations, i, firstTimestamp, solved, xc, avgSpeed,
                   pulls, solverCalls, processedData>>

Next ==
    \/ FetchBatch
    \/ BeginScoring
    \/ NextChunk
    \/ SolverNext
    \/ EndScoring
    \/ WriteProcessedFile

Spec == Init /\ [][Next]_vars

\* ------------------------------------------------------------------ claims
CeilDiv(a, b) == (a + b - 1) \div b

\* processData has returned its rows to run().
Returned == pc \in {"write", "done"} \/ (pc = "failed" /\ error = "TypeError")

\* getGroundElevations has returned.
LookupReturned == pc \in {"score", "solve"} \/ Returned

\* Some batch was answered with a non-success HTTP status.
HttpFailed == \E k \in 1..Len(responses) : ~responses[k].ok

\* Some batch got a success response whose status does not start with OK.
BadStatus ==
    \E k \in 1..Len(responses) :
        responses[k].ok /\ ~StartsWithOK(responses[k].status)

\* Some batch got an OK body with another number of results than asked.
Mismatch ==
    \E k \in 1..Len(responses) :
        /\ responses[k].ok
        /\ StartsWithOK(responses[k].status)
        /\ Len(responses[k].results) # Len(requests[k])

\* Last fix (1-based) of scoring chunk k (1-based).
ChunkEnd(k) == Min(k * CHUNK_SIZE, Len(fixes))

\* C1: for a non-empty track processData returns one row per fix, in
\* track order: as many rows as fixes, row k carrying the time of fix k.
C1_OneRowPerFix ==
    (Returned /\ Len(fixes) > 0) =>
        /\ Len(processedData) = Len(fixes)
        /\ \A k \in 1..Len(fixes) : processedData[k].time = fixes[k].time

C1_Witness ==
    /\ pc = "done"
    /\ Len(fixes) > 2 * CHUNK_SIZE
    /\ Len(requests) = 2
    /\ Len(processedData) = Len(fixes)

\* C2: the lookup issues ceil(N/100) requests, request k holding the
\* locations of fixes (k-1)*100+1 .. min(k*100, N) in order, and when
\* every batch reports success (HTTP ok, status OK) the returned sequence
\* has length N, element j being the service's elevation of fix j.
C2_Batching ==
    LookupReturned =>
        /\ Len(requests) = CeilDiv(Len(fixes), ELEVATION_CHUNK_SIZE)
        /\ \A k \in 1..Len(requests) :
              requests[k] =
                Locations(SubSeq(fixes, (k - 1) * ELEVATION_CHUNK_SIZE + 1,
                                 Min(k * ELEVATION_CHUNK_SIZE, Len(fixes))))
        /\ (\A k \in 1..Len(responses) :
                responses[k].ok /\ StartsWithOK(responses[k].status))
            => /\ Len(elevations) = Len(fixes)
               /\ \A j \in 1..Len(fixes) :
                     elevations[j] = Terrain(Locations(fixes)[j])

\* C3: the scoring loop invokes the solver ceil(N/60) times, invocation k
\* on exactly the prefix fixes[1 .. min(k*60, N)] of the track.
C3_GrowingPrefixes ==
    /\ \A k \in 1..Len(solverCalls) : solverCalls[k].prefix = ChunkEnd(k)
    /\ pc = "solve" =>
          igcFixes = SubSeq(fixes, 1, ChunkEnd(Len(solverCalls)))
    /\ Returned => Len(solverCalls) = CeilDiv(Len(fixes), CHUNK_SIZE)

C3_Witness ==
    /\ Returned
    /\ Len(fixes) > 2 * CHUNK_SIZE
    /\ Len(solverCalls) = 3
    /\ solverCalls[1].prefix = CHUNK_SIZE
    /\ solverCalls[2].prefix = 2 * CHUNK_SIZE
    /\ solverCalls[3].prefix = Len(fixes)

\* C4: every row of chunk k carries the xc and avgSpeed computed from the
\* candidate taken in solver invocation k, and no step changes a row
\* that has already been emitted.
C4_ChunkAttachment ==
    /\ [](\A r \in 1..Len(processedData) :
            LET k == (r - 1) \div CHUNK_SIZE + 1 IN
            /\ k <= Len(solverCalls)
            /\ processedData[r].xc = XcLabel(solverCalls[k].accepted)
            /\ processedData[r].avgSpeed =
                 AvgSpeedOf(solverCalls[k].accepted,
                            SubSeq(fixes, 1, ChunkEnd(k)), firstTimestamp))
    /\ [][\A r \in 1..Len(processedData) :
            /\ r <= Len(processedData')
            /\ processedData'[r] = processedData[r]]_vars

C4_Witness ==
    /\ pc = "done"
    /\ Len(solverCalls) = 3
    /\ processedData[1].xc # processedData[CHUNK_SIZE + 1].xc
    /\ processedData[CHUNK_SIZE + 1].xc # processedData[2 * CHUNK_SIZE + 1].xc
    /\ processedData[1].xc = processedData[CHUNK_SIZE].xc

\* C5: once a batch is answered with a non-success HTTP status the run
\* is dead: that request was the last one, the solver is never invoked and
\* no output file is opened or written.
C5_HttpErrorAborts ==
    HttpFailed =>
        /\ pc = "failed"
        /\ error = "HttpError"
        /\ Len(requests) = Len(responses)
        /\ \A k \in 1..Len(responses) : ~responses[k].ok => k = Len(responses)
        /\ solverCalls = <<>>
        /\ processedData = <<>>
        /\ ~fileOpened
        /\ fileRows = <<>>

C5_Witness ==
    /\ Len(responses) = 2
    /\ responses[1].ok
    /\ ~responses[2].ok
    /\ pc = "failed"

\* C6: for an empty track no request goes to the elevation service, no
\* solver is invoked and processData returns no row.
C6_EmptyTrack ==
    Len(fixes) = 0 =>
        /\ requests = <<>>
        /\ solverCalls = <<>>
        /\ processedData = <<>>
        /\ pc \in {"elev", "write", "done"}

C6_Witness == Len(fixes) = 0 /\ pc = "write" /\ elevations = <<>>

\* C7: a success response carrying another number of results than the
\* batch had coordinates makes the run fail with a fatal error, before
\* any row is built from the misaligned elevations.
C7_MismatchIsFatal ==
    Mismatch => (pc = "failed" /\ processedData = <<>> /\ ~fileOpened)

\* C8: the avgSpeed of every row of chunk k equals D / (T / 3_600_000),
\* D the net distance (distance minus penalty, a missing or NaN penalty
\* counting as zero) of the candidate taken in invocation k and T the
\* chunk's last timestamp minus the track's first.
C8_AvgSpeedOfNetDistance ==
    \A r \in 1..Len(processedData) :
        LET k == (r - 1) \div CHUNK_SIZE + 1
            taken == solverCalls[k].accepted
            D == taken.distance - PenaltyOrZero(taken.penalty)
            T == fixes[ChunkEnd(k)].timestamp - fixes[1].timestamp
        IN processedData[r].avgSpeed = Div(D * (MS_PER_HOUR \div 10), T)

\* C9: within one scoring iteration candidates not flagged optimal are
\* ignored (no score taken, no row emitted), the score comes from the
\* first candidate flagged optimal, nothing is pulled from a solver after
\* that candidate, and the chunk's rows exist only once it has been seen.
C9_PullUntilOptimal ==
    /\ \A k \in 1..Len(solverCalls) :
          /\ ~solverCalls[k].pulledPastOptimal
          /\ solverCalls[k].accepted # NoCandidate
                => solverCalls[k].accepted.optimal = "true"
          /\ (solverCalls[k].accepted # NoCandidate) = solverCalls[k].optimalSeen
          /\ (k < Len(solverCalls) \/ pc # "solve")
                => solverCalls[k].optimalSeen
    /\ pc = "solve" =>
          /\ ~solverCalls[Len(solverCalls)].optimalSeen
          /\ xc = EmptyXc
          /\ avgSpeed = UndefinedSpeed
          /\ Len(processedData) = ChunkEnd(Len(solverCalls) - 1)
    /\ (pc # "solve" /\ LookupReturned) =>
          Len(processedData) = ChunkEnd(Len(solverCalls))

C9_Witness ==
    /\ pc = "solve"
    /\ pulls >= 1
    /\ Len(solverCalls) = 2
    /\ solverCalls[1].accepted.optimal = "true"
    /\ Len(processedData) = CHUNK_SIZE

\* C10: after a success response whose status does not start with OK
\* (and no HTTP error) the lookup goes on through every batch and the run
\* does not abort: it ends having written one output row per fix.
C10_BadStatusRunsToCompletion ==
    (BadStatus /\ ~HttpFailed) =>
        /\ pc # "failed"
        /\ LookupReturned =>
              Len(requests) = CeilDiv(Len(fixes), ELEVATION_CHUNK_SIZE)
        /\ pc = "done" => Len(fileRows) = Len(fixes)

====
